---- MODULE Spec2Model ----
(***************************************************************************)
(* The discount store of the SAUWA site (stores/discountStore.ts, the      *)
(* WDA-1023 schema): four atoms, one of them persisted to LocalStorage     *)
(* under the key 'sauwa_discount', and the actions that mutate them.       *)
(*                                                                         *)
(* Representation.                                                         *)
(*  - A JS string the code edits (the code input) is a sequence of         *)
(*    one-character strings.                                               *)
(*  - A JS number that carries money or a percentage is an integer count   *)
(*    of hundredths (1250 is 12.5), so that Math.round(x * 100) / 100 is   *)
(*    computed and not assumed.                                            *)
(*  - JS null and undefined are the records Null and Undefined; a nullable *)
(*    number n is Num(n); a date string is Iso(t) for the instant t it     *)
(*    parses to, or BadDate when new Date() cannot parse it.               *)
(*  - A JSON text is a sequence of tokens.                                 *)
(***************************************************************************)
EXTENDS Integers, Sequences, FiniteSets, TLC

VARIABLES
    discountCode,     \* atom<string>
    discountState,    \* atom<DiscountState>
    appliedDiscount,  \* persistentAtom<Discount | null>, the in-memory value
    discountError,    \* atom<DiscountErrorType | null>
    storage,          \* localStorage['sauwa_discount']: a JSON text, or Absent
    now,              \* the wall clock read by new Date()
    result,           \* what the last call returned (Void for a void function,
                      \* and while an async call has not resolved)
    threw,            \* whether the last operation let an exception escape
    call,             \* the GraphQL client call in progress or last made: the
                      \* function, its arguments and the clock value it was
                      \* made at, Null before the first
    request,          \* the variables that call handed to graphqlQuery
    timeoutId,        \* the clock value its setTimeout is due at, Null when
                      \* none is armed
    aborted,          \* controller.signal.aborted of that call
    settlement,       \* how graphqlQuery settled for that call, Null while it
                      \* has not
    backend,          \* the posts the WordPress backend holds, newest first
    cache,            \* blog-queries' cache map: key -> [data, timestamp]
    allFilteredPostsCache,
                      \* blog-queries' map of filtered post lists, by
                      \* language and category
    timers            \* the cache expiry timers armed by getBlogPosts and
                      \* not yet run: [key, due]

clientVars == <<call, request, timeoutId, aborted, settlement>>

blogVars == <<backend, cache, allFilteredPostsCache, timers>>

vars == <<discountCode, discountState, appliedDiscount, discountError,
          storage, now, result, threw, clientVars, blogVars>>

\* ------------------------------------------------------------------ bounds

MaxTime == 2
MaxCodeLen == 3
MaxPrice == 3

\* ------------------------------------------------------------------ values

Null == [null |-> TRUE]
Undefined == [undefined |-> TRUE]
Void == [void |-> TRUE]
Num(n) == [num |-> n]
Iso(t) == [iso |-> t]
BadDate == [text |-> "soon"]
NullError == "null"

Times == 0..MaxTime

DiscountTypes == {"percentage", "fixed"}
DiscountStatuses == {"active", "inactive", "expired"}
DiscountStates == {"idle", "validating", "valid", "error"}
DiscountErrorTypes ==
    {"INVALID_CODE", "INACTIVE", "EXPIRED", "NO_USES_LEFT", "NETWORK_ERROR",
     "UNKNOWN_ERROR"}

\* Discount.amount values, in hundredths: 1.5, 12.5, 20 and 150.
Amounts == {150, 1250, 2000, 15000}
ValidUntils == {Null, BadDate} \cup {Iso(t) : t \in 1..(MaxTime - 1)}

Discount(type, amount, validUntil, status) ==
    [code |-> "SUMMER20", type |-> type, amount |-> amount,
     validUntil |-> validUntil, maxUses |-> Num(100), currentUses |-> 10,
     status |-> status]

\* The discount records the model hands to setValid.
Discounts ==
    {Discount(ty, a, Null, "active") : ty \in DiscountTypes, a \in Amounts}
    \cup {Discount("percentage", 2000, vu, st) :
            vu \in ValidUntils, st \in DiscountStatuses}

\* Session prices: whole numbers, in hundredths.
Prices == {100 * k : k \in 0..MaxPrice}

\* The characters of the raw code input.
Chars == {" ", "a"}
RECURSIVE CharSeqs(_)
CharSeqs(n) ==
    IF n = 0 THEN {<<>>}
    ELSE {Append(s, c) : s \in CharSeqs(n - 1), c \in Chars}
RawCodes == UNION {CharSeqs(n) : n \in 0..MaxCodeLen}

\* ------------------------------------------------------------------ JS helpers

\* JS truthiness of the values the store can hold.
Truthy(v) ==
    v \notin {Null, Undefined, Num(0), [str |-> ""], [bool |-> FALSE]}

Min(a, b) == IF a < b THEN a ELSE b

\* Math.round of the real num/den (den > 0): the nearest integer. The operand
\* is a double: when the real is exactly halfway, the double computed by the
\* surrounding * and / lies on either side of the tie, so both neighbours occur.
MathRound(num, den) ==
    LET lo == num \div den
        rem == num % den
    IN  IF 2 * rem = den THEN {lo, lo + 1}
        ELSE IF 2 * rem > den THEN {lo + 1}
        ELSE {lo}

\* ------------------------------------------------------------------ strings

IsSpace(c) == c = " "

toUpperCase(s) == [i \in 1..Len(s) |-> IF s[i] = "a" THEN "A" ELSE s[i]]

RECURSIVE trimStart(_)
trimStart(s) ==
    IF s # <<>> /\ IsSpace(Head(s)) THEN trimStart(Tail(s)) ELSE s

RECURSIVE trimEnd(_)
trimEnd(s) ==
    IF s # <<>> /\ IsSpace(s[Len(s)])
    THEN trimEnd(SubSeq(s, 1, Len(s) - 1))
    ELSE s

trim(s) == trimEnd(trimStart(s))

\* The input is uppercased and not trimmed.
sanitizeCodeNoTrim(code) == toUpperCase(code)

sanitizeCode(code) == toUpperCase(trim(code))

\* ------------------------------------------------------------------ JSON

\* Tokens of a JSON text.
P(c) == [p |-> c]          \* punctuation
K(k) == [key |-> k]        \* a member name, with its colon
S(x) == [s |-> x]          \* a string literal
D(t) == [date |-> t]       \* a string literal holding the ISO date of instant t
N(n) == [n |-> n]          \* a number literal
Lit(w) == [lit |-> w]      \* null
Raw(x) == [raw |-> x]      \* bytes that are no JSON token

Absent == <<>>             \* the key is not set (or holds the empty string)

FieldOrder ==
    <<"code", "type", "amount", "validUntil", "maxUses", "currentUses", "status">>

\* Whether the value has the member: reading a missing member, or any member
\* of a primitive, gives undefined.
Has(v, f) == f \in DOMAIN v

\* The token JSON.stringify writes for member f holding x.
EncodeField(f, x) ==
    IF f \in {"code", "type", "status"} THEN S(x)
    ELSE IF f \in {"amount", "currentUses"} THEN N(x)
    ELSE IF x = Null THEN Lit("null")
    ELSE IF Has(x, "num") THEN N(x.num)
    ELSE IF Has(x, "iso") THEN D(x.iso)
    ELSE S(x.text)

RECURSIVE Members(_, _)
Members(v, i) ==
    IF i > Len(FieldOrder) THEN <<>>
    ELSE LET f == FieldOrder[i]
         IN  (IF Has(v, f) THEN <<K(f), EncodeField(f, v[f])>> ELSE <<>>)
             \o Members(v, i + 1)

\* encode: JSON.stringify of a value the atom can hold.
JSONStringify(v) ==
    IF v = Null THEN <<Lit("null")>>
    ELSE IF Has(v, "num") THEN <<N(v.num)>>
    ELSE IF Has(v, "str") THEN <<S(v.str)>>
    ELSE <<P("{")>> \o Members(v, 1) \o <<P("}")>>

\* The value JSON.parse reads from the token tok of member f.
DecodeField(f, tok) ==
    IF Has(tok, "lit") THEN Null
    ELSE IF Has(tok, "date") THEN Iso(tok.date)
    ELSE IF Has(tok, "n") THEN (IF f = "maxUses" THEN Num(tok.n) ELSE tok.n)
    ELSE IF f = "validUntil" THEN [text |-> tok.s]
    ELSE tok.s

IsValueToken(tok) ==
    Has(tok, "s") \/ Has(tok, "date") \/ Has(tok, "n") \/ Has(tok, "lit")

IsObjectText(text) ==
    /\ Len(text) >= 2
    /\ Len(text) % 2 = 0
    /\ text[1] = P("{")
    /\ text[Len(text)] = P("}")
    /\ \A i \in 2..(Len(text) - 1) :
          IF i % 2 = 0 THEN Has(text[i], "key") ELSE IsValueToken(text[i])

ObjectOf(text) ==
    LET keyIdx == {i \in 2..(Len(text) - 1) : i % 2 = 0}
        names == {text[i].key : i \in keyIdx}
        last(f) == CHOOSE i \in keyIdx :
                      /\ text[i].key = f
                      /\ \A j \in keyIdx : text[j].key = f => j <= i
    IN  [f \in names |-> DecodeField(f, text[last(f) + 1])]

\* JSON.parse: the value, or a SyntaxError.
JSONParse(text) ==
    IF text = <<Lit("null")>> THEN [threw |-> FALSE, value |-> Null]
    ELSE IF Len(text) = 1 /\ Has(text[1], "n")
    THEN [threw |-> FALSE, value |-> Num(text[1].n)]
    ELSE IF Len(text) = 1 /\ Has(text[1], "s")
    THEN [threw |-> FALSE, value |-> [str |-> text[1].s]]
    ELSE IF IsObjectText(text)
    THEN [threw |-> FALSE, value |-> ObjectOf(text)]
    ELSE [threw |-> TRUE, value |-> Undefined]

\* ------------------------------------------------------------------ expiry

\* now >= expirationDate
PastDateInclusive(validUntil, t) == Has(validUntil, "iso") /\ t >= validUntil.iso

\* new Date(validUntil) compared with now: an unparsable date is NaN, and
\* now > NaN is false.
PastDate(validUntil, t) == Has(validUntil, "iso") /\ t > validUntil.iso

\* The status is not looked at (the check of the older schema).
isDiscountExpiredDateOnly(discount, t) ==
    IF ~Has(discount, "validUntil") \/ ~Truthy(discount.validUntil) THEN FALSE
    ELSE PastDate(discount.validUntil, t)

isDiscountExpired(discount, t) ==
    IF Has(discount, "status") /\ discount.status \in {"expired", "inactive"}
    THEN TRUE
    ELSE IF ~Has(discount, "validUntil") \/ ~Truthy(discount.validUntil)
    THEN FALSE
    ELSE PastDate(discount.validUntil, t)

\* ------------------------------------------------------------------ persistence

\* The parsed value is returned without the expiry check.
decodeNoExpiryCheck(str, t) ==
    LET parsed == JSONParse(str)
    IN  IF parsed.threw THEN [threw |-> FALSE, value |-> Null] ELSE parsed

\* The decode option of the persistent atom, at clock t.
decode(str, t) ==
    LET parsed == JSONParse(str)
    IN  IF parsed.threw THEN [threw |-> FALSE, value |-> Null]
        ELSE IF Truthy(parsed.value) /\ isDiscountExpired(parsed.value, t)
        THEN [threw |-> FALSE, value |-> Null]
        ELSE [threw |-> FALSE, value |-> parsed.value]

\* The persistent atom's restore: the initial value when the key is absent.
restore(stored, t) ==
    IF stored = Absent THEN [threw |-> FALSE, value |-> Null]
    ELSE decode(stored, t)

\* ------------------------------------------------------------------ calculation

Calculation(originalPrice, discountAmount, finalPrice, percentage) ==
    [originalPrice |-> originalPrice, discountAmount |-> discountAmount,
     finalPrice |-> finalPrice, percentage |-> percentage]

\* Math.round(sessionPrice - discountAmount): the final price rounded to a
\* whole number.
finalPriceOfWholeUnits(sessionPrice, discountAmount) ==
    {100 * n : n \in MathRound(sessionPrice - discountAmount, 100)}

\* Math.round((sessionPrice - discountAmount) * 100) / 100, in hundredths.
finalPriceOf(sessionPrice, discountAmount) ==
    MathRound(sessionPrice - discountAmount, 1)

\* Math.round((sessionPrice * amount) / 100) with no hundredths kept: the
\* discount as a whole number of the price's unit.
percentageDiscountAmountWholeUnits(sessionPrice, amount) ==
    {100 * n : n \in MathRound(sessionPrice * amount, 1000000)}

\* Math.round((sessionPrice * amount) / 100 * 100) / 100, in hundredths: the
\* operand of Math.round is the real sessionPrice * amount.
percentageDiscountAmount(sessionPrice, amount) ==
    MathRound(sessionPrice * amount, 10000)

\* Math.min(amount, sessionPrice)
fixedDiscountAmount(sessionPrice, amount) == Min(amount, sessionPrice)

\* sessionPrice > 0 ? Math.round((discountAmount / sessionPrice) * 100) : 0,
\* a whole number of percent, in hundredths.
fixedPercentage(sessionPrice, discountAmount) ==
    IF sessionPrice > 0
    THEN {100 * n : n \in MathRound(100 * discountAmount, sessionPrice)}
    ELSE {0}

\* The values getDiscountCalculation(sessionPrice) can return while the atom
\* holds discount.
DiscountCalculations(discount, sessionPrice) ==
    IF ~Truthy(discount)
    THEN {Calculation(sessionPrice, 0, sessionPrice, 0)}
    ELSE IF discount.type = "percentage"
    THEN UNION {{Calculation(sessionPrice, d, f, discount.amount) :
                    f \in finalPriceOf(sessionPrice, d)} :
                 d \in percentageDiscountAmount(sessionPrice, discount.amount)}
    ELSE LET d == fixedDiscountAmount(sessionPrice, discount.amount)
         IN  {Calculation(sessionPrice, d, f, pc) :
                f \in finalPriceOf(sessionPrice, d),
                pc \in fixedPercentage(sessionPrice, d)}

\* ------------------------------------------------------------------ the store

\* A plain atom: the value is set and nothing is written under the key.
appliedDiscountSetMemoryOnly(value) ==
    /\ appliedDiscount' = value
    /\ storage' = storage

\* appliedDiscount.set(value): the persistent atom writes encode(value) under
\* its key, then sets the atom.
appliedDiscountSet(value) ==
    /\ appliedDiscount' = value
    /\ storage' = JSONStringify(value)

\* Module evaluation on a page load at clock t with `stored` under the key:
\* the atoms take their initial values and the persistent atom restores.
Loaded(stored, t) ==
    LET r == restore(stored, t)
    IN  /\ discountCode' = <<>>
        /\ discountState' = "idle"
        /\ discountError' = NullError
        /\ appliedDiscount' = r.value
        /\ threw' = r.threw
        /\ result' = Void
        \* the restore goes through the atom's set in some versions of the
        \* persistence library, which writes the decoded value back
        /\ storage' \in {stored, JSONStringify(r.value)}

\* No call of the GraphQL client has been made.
NoCall ==
    /\ call = Null
    /\ request = Null
    /\ timeoutId = Null
    /\ aborted = FALSE
    /\ settlement = Null

\* A map with no keys.
EmptyMap == [k \in {} |-> Null]

\* The blog module is loaded and nothing is cached.
NoBlog ==
    /\ backend = <<>>
    /\ cache = EmptyMap
    /\ allFilteredPostsCache = EmptyMap
    /\ timers = {}

Init ==
    /\ NoCall
    /\ NoBlog
    /\ discountCode = <<>>
    /\ discountState = "idle"
    /\ appliedDiscount = Null
    /\ discountError = NullError
    /\ storage = Absent
    /\ now \in Times
    /\ result = Void
    /\ threw = FALSE

\* Editing clears the error and leaves the status.
setDiscountCodeKeepStatus(code) ==
    /\ discountCode' = sanitizeCode(code)
    /\ discountError' = NullError
    /\ result' = Void
    /\ threw' = FALSE
    /\ UNCHANGED <<discountState, appliedDiscount, storage, now>>
    /\ UNCHANGED <<clientVars, blogVars>>

\* Editing resets the status to idle whether or not an error is set.
setDiscountCodeAlwaysIdle(code) ==
    /\ discountCode' = sanitizeCode(code)
    /\ discountError' = NullError
    /\ discountState' = "idle"
    /\ result' = Void
    /\ threw' = FALSE
    /\ UNCHANGED <<appliedDiscount, storage, now>>
    /\ UNCHANGED <<clientVars, blogVars>>

setDiscountCode(code) ==
    /\ discountCode' = sanitizeCode(code)
    /\ IF discountError # NullError
       THEN discountError' = NullError /\ discountState' = "idle"
       ELSE UNCHANGED <<discountError, discountState>>
    /\ result' = Void
    /\ threw' = FALSE
    /\ UNCHANGED <<appliedDiscount, storage, now>>
    /\ UNCHANGED <<clientVars, blogVars>>

\* The status is set and the error left.
setValidatingKeepError ==
    /\ discountState' = "validating"
    /\ result' = Void
    /\ threw' = FALSE
    /\ UNCHANGED <<discountError, discountCode, appliedDiscount, storage, now>>
    /\ UNCHANGED <<clientVars, blogVars>>

setValidating ==
    /\ discountState' = "validating"
    /\ discountError' = NullError
    /\ result' = Void
    /\ threw' = FALSE
    /\ UNCHANGED <<discountCode, appliedDiscount, storage, now>>
    /\ UNCHANGED <<clientVars, blogVars>>

\* The error is left after a successful application.
setValidKeepError(discount) ==
    /\ appliedDiscountSet(discount)
    /\ discountState' = "valid"
    /\ discountCode' = <<>>
    /\ result' = Void
    /\ threw' = FALSE
    /\ UNCHANGED <<discountError, now>>
    /\ UNCHANGED <<clientVars, blogVars>>

\* The input code is left after a successful application.
setValidKeepCode(discount) ==
    /\ appliedDiscountSet(discount)
    /\ discountState' = "valid"
    /\ discountError' = NullError
    /\ result' = Void
    /\ threw' = FALSE
    /\ UNCHANGED <<discountCode, now>>
    /\ UNCHANGED <<clientVars, blogVars>>

setValid(discount) ==
    /\ appliedDiscountSet(discount)
    /\ discountState' = "valid"
    /\ discountError' = NullError
    /\ discountCode' = <<>>
    /\ result' = Void
    /\ threw' = FALSE
    /\ UNCHANGED now
    /\ UNCHANGED <<clientVars, blogVars>>

\* The error is set and the status left.
setErrorKeepStatus(error) ==
    /\ discountError' = error
    /\ appliedDiscountSet(Null)
    /\ result' = Void
    /\ threw' = FALSE
    /\ UNCHANGED <<discountState, discountCode, now>>
    /\ UNCHANGED <<clientVars, blogVars>>

\* The applied discount is left when an error is set.
setErrorKeepDiscount(error) ==
    /\ discountError' = error
    /\ discountState' = "error"
    /\ result' = Void
    /\ threw' = FALSE
    /\ UNCHANGED <<appliedDiscount, storage, discountCode, now>>
    /\ UNCHANGED <<clientVars, blogVars>>

setError(error) ==
    /\ discountError' = error
    /\ discountState' = "error"
    /\ appliedDiscountSet(Null)
    /\ result' = Void
    /\ threw' = FALSE
    /\ UNCHANGED <<discountCode, now>>
    /\ UNCHANGED <<clientVars, blogVars>>

\* The atoms are reset and the text under the key is left.
clearDiscountKeepStored ==
    /\ discountCode' = <<>>
    /\ discountState' = "idle"
    /\ appliedDiscountSetMemoryOnly(Null)
    /\ discountError' = NullError
    /\ result' = Void
    /\ threw' = FALSE
    /\ UNCHANGED now
    /\ UNCHANGED <<clientVars, blogVars>>

clearDiscount ==
    /\ discountCode' = <<>>
    /\ discountState' = "idle"
    /\ appliedDiscountSet(Null)
    /\ discountError' = NullError
    /\ result' = Void
    /\ threw' = FALSE
    /\ UNCHANGED now
    /\ UNCHANGED <<clientVars, blogVars>>

revalidateStoredDiscount ==
    LET stored == appliedDiscount
    IN  IF Truthy(stored) /\ isDiscountExpired(stored, now)
        THEN clearDiscount
        ELSE /\ result' = Void
             /\ threw' = FALSE
             /\ UNCHANGED <<discountCode, discountState, appliedDiscount,
                            discountError, storage, now>>
             /\ UNCHANGED <<clientVars, blogVars>>

getDiscountCalculation(sessionPrice) ==
    /\ result' \in DiscountCalculations(appliedDiscount, sessionPrice)
    /\ threw' = FALSE
    /\ UNCHANGED <<discountCode, discountState, appliedDiscount, discountError,
                   storage, now>>
    /\ UNCHANGED <<clientVars, blogVars>>

\* The page is loaded again: the module is evaluated afresh over the storage.
Reload ==
    /\ Loaded(storage, now)
    /\ UNCHANGED now
    /\ UNCHANGED <<clientVars, blogVars>>

\* Time passes.
Tick ==
    /\ now < MaxTime
    /\ now' = now + 1
    /\ UNCHANGED <<discountCode, discountState, appliedDiscount, discountError,
                   storage, result, threw>>
    /\ UNCHANGED <<clientVars, blogVars>>

Next ==
    \/ \E code \in RawCodes : setDiscountCode(code)
    \/ setValidating
    \/ \E discount \in Discounts : setValid(discount)
    \/ \E error \in DiscountErrorTypes : setError(error)
    \/ clearDiscount
    \/ revalidateStoredDiscount
    \/ \E sessionPrice \in Prices : getDiscountCalculation(sessionPrice)
    \/ Reload
    \/ Tick

Spec == Init /\ [][Next]_vars

\* ------------------------------------------------------------------ a first load over any stored text

\* Texts JSON.parse rejects: bare bytes, and a discount's text cut short.
UnparsableTexts ==
    LET text == JSONStringify(Discount("percentage", 2000, Null, "active"))
    IN  {<<Raw("SUMMER20")>>} \cup {SubSeq(text, 1, k) : k \in 1..(Len(text) - 1)}

\* Texts JSON.parse accepts that are neither a discount nor null:
\* {}, 42, 0 and "SUMMER20".
OtherJSONTexts ==
    {<<P("{"), P("}")>>, <<N(42)>>, <<N(0)>>, <<S("SUMMER20")>>}

\* What the key can hold when the page loads: nothing, what the store wrote
\* in an earlier session, or what something else left there.
StoredTexts ==
    {Absent} \cup {JSONStringify(v) : v \in Discounts \cup {Null}}
    \cup UnparsableTexts \cup OtherJSONTexts

\* The state after the module is evaluated over a stored text.
InitStored ==
    /\ NoCall
    /\ NoBlog
    /\ now \in Times
    /\ storage \in StoredTexts
    /\ discountCode = <<>>
    /\ discountState = "idle"
    /\ discountError = NullError
    /\ appliedDiscount = restore(storage, now).value
    /\ threw = restore(storage, now).threw
    /\ result = Void

NextStored ==
    \/ \E code \in RawCodes : setDiscountCode(code)
    \/ setValidating
    \/ \E discount \in Discounts : setValid(discount)
    \/ \E error \in DiscountErrorTypes : setError(error)
    \/ clearDiscount
    \/ revalidateStoredDiscount
    \/ Reload
    \/ Tick

SpecStored == InitStored /\ [][NextStored]_vars

\* ------------------------------------------------------------------ the GraphQL client: values

MaxClock == 6

\* setTimeout(() => controller.abort(), 5000), in seconds of the clock.
TimeoutSeconds == 5

\* A JS string built from pieces (a template literal keeps its pieces).
Message(parts) == [parts |-> parts]

\* A thrown Error, and a thrown value that is no Error.
Error(name, message) == [name |-> name, message |-> Message(<<message>>)]
NonError == [thrown |-> "value"]

\* What graphqlQuery rejects with: a GraphQL error, a failed fetch, an
\* aborted fetch, a value that is no Error.
Rejections ==
    {Error("Error", "GraphQL request failed"),
     Error("TypeError", "Failed to fetch"),
     Error("AbortError", "The operation was aborted."),
     NonError}

\* Reading a member of undefined or null.
PropertyOfUndefined ==
    Error("TypeError", "Cannot read properties of undefined")

\* obj.f of a JS object: undefined when the object has no such member.
Member(obj, f) == IF Has(obj, f) THEN obj[f] ELSE Undefined

\* The discountCode member of the validation response.
BackendDiscountCode(status, validUntil, maxUses, currentUses) ==
    [id |-> 7, code |-> "SUMMER20", name |-> "Summer", discountType |-> "percentage",
     discountValue |-> 20, maxUses |-> maxUses, currentUses |-> currentUses,
     validFrom |-> Null, validUntil |-> validUntil, status |-> status]

\* maxUses and currentUses: no cap, a cap of 0, a cap reached, a cap not
\* reached.
Uses == {<<Null, 10>>, <<Num(0), 10>>, <<Num(100), 100>>, <<Num(100), 10>>}

BackendDiscountCodes ==
    {BackendDiscountCode(st, vu, u[1], u[2]) :
        st \in DiscountStatuses, vu \in ValidUntils, u \in Uses}

\* calculatedDiscount and finalPriceCents of the response: 20 percent of 5000,
\* or null.
BackendAmounts == {<<Num(1000), Num(4000)>>, <<Null, Null>>}

ValidationAnswer(valid, backendCode, amounts) ==
    [valid |-> valid,
     reason |-> Message(<<IF valid THEN "Code applied" ELSE "Code rejected">>),
     calculatedDiscount |-> amounts[1], finalPriceCents |-> amounts[2],
     discountCode |-> backendCode]

\* The data graphqlQuery resolves with for the validation query: an answer of
\* the declared shape, or a payload without it.
ValidationPayloads ==
    {[sauwaValidateDiscountCode |-> ValidationAnswer(v, dc, am)] :
        v \in BOOLEAN, dc \in BackendDiscountCodes \cup {Null},
        am \in BackendAmounts}
    \cup {Null, [errors |-> "Internal server error"]}

\* The data graphqlQuery resolves with for the application mutation.
ApplicationPayloads ==
    {[sauwaApplyDiscountCode |->
        [success |-> ok,
         message |-> Message(<<IF ok THEN "Discount applied" ELSE "Code not applicable">>),
         discountApplied |-> da]] :
        ok \in BOOLEAN, da \in {Num(1000), Null}}
    \cup {Null, [errors |-> "Internal server error"]}

Subtotals == {5000}
BookingIds == {12345}

\* ------------------------------------------------------------------ the GraphQL client: functions

\* The date is compared before the status.
mapToErrorTypeDateFirst(backendCode, t) ==
    IF ~Truthy(backendCode) THEN "INVALID_CODE"
    ELSE IF Truthy(backendCode.validUntil) /\ PastDate(backendCode.validUntil, t)
    THEN "EXPIRED"
    ELSE IF backendCode.status = "inactive" THEN "INACTIVE"
    ELSE IF backendCode.status = "expired" THEN "EXPIRED"
    ELSE IF /\ backendCode.maxUses # Null
            /\ backendCode.maxUses.num > 0
            /\ backendCode.currentUses >= backendCode.maxUses.num
    THEN "NO_USES_LEFT"
    ELSE "UNKNOWN_ERROR"

\* mapToErrorType(discountCode, reason) at clock t; reason is not read.
mapToErrorType(backendCode, t) ==
    IF ~Truthy(backendCode) THEN "INVALID_CODE"
    ELSE IF backendCode.status = "inactive" THEN "INACTIVE"
    ELSE IF backendCode.status = "expired" THEN "EXPIRED"
    ELSE IF Truthy(backendCode.validUntil) /\ PastDate(backendCode.validUntil, t)
    THEN "EXPIRED"
    ELSE IF /\ backendCode.maxUses # Null
            /\ backendCode.maxUses.num > 0
            /\ backendCode.currentUses >= backendCode.maxUses.num
    THEN "NO_USES_LEFT"
    ELSE "UNKNOWN_ERROR"

\* x ?? undefined
OrUndefined(x) == IF x \in {Null, Undefined} THEN Undefined ELSE x

\* The outcome of a function body: the value returned, or the error thrown.
Returned(value) == [threw |-> FALSE, value |-> value]
Thrown(error) == [threw |-> TRUE, value |-> error]

\* The code is sent as typed.
normalizedCodeAsTyped(code) == code

\* code.trim().toUpperCase()
normalizedCode(code) == toUpperCase(trim(code))

\* The result for an answer that is valid and has a record.
ValidResult(answer) ==
    [valid |-> TRUE,
     discount |->
        [code |-> answer.discountCode.code,
         type |-> answer.discountCode.discountType,
         amount |-> answer.discountCode.discountValue,
         validUntil |-> answer.discountCode.validUntil,
         maxUses |-> answer.discountCode.maxUses,
         currentUses |-> answer.discountCode.currentUses,
         status |-> answer.discountCode.status],
     calculatedDiscount |-> OrUndefined(answer.calculatedDiscount),
     finalPriceCents |-> OrUndefined(answer.finalPriceCents),
     message |-> answer.reason]

\* The valid flag alone decides, and the record is passed on as it came.
validateTryFlagOnly(data, t) ==
    IF ~Truthy(data) \/ ~Truthy(Member(data, "sauwaValidateDiscountCode"))
    THEN Thrown(PropertyOfUndefined)
    ELSE LET answer == data.sauwaValidateDiscountCode
         IN  IF answer.valid
             THEN Returned(
                    IF Truthy(answer.discountCode) THEN ValidResult(answer)
                    ELSE [valid |-> TRUE, discount |-> answer.discountCode,
                          calculatedDiscount |-> OrUndefined(answer.calculatedDiscount),
                          finalPriceCents |-> OrUndefined(answer.finalPriceCents),
                          message |-> answer.reason])
             ELSE Returned(
                    [valid |-> FALSE,
                     error |-> mapToErrorType(answer.discountCode, t),
                     message |-> answer.reason])

\* The try block of validateDiscountCode after the await, over the data
\* graphqlQuery resolved with, at clock t.
validateTry(data, t) ==
    IF ~Truthy(data) \/ ~Truthy(Member(data, "sauwaValidateDiscountCode"))
    THEN Thrown(PropertyOfUndefined)
    ELSE LET answer == data.sauwaValidateDiscountCode
         IN  IF answer.valid /\ Truthy(answer.discountCode)
             THEN Returned(ValidResult(answer))
             ELSE Returned(
                    [valid |-> FALSE,
                     error |-> mapToErrorType(answer.discountCode, t),
                     message |-> answer.reason])

\* The catch block rethrows.
validateCatchRethrow(error) == Thrown(error)

\* The catch block of validateDiscountCode.
validateCatch(error) ==
    IF Has(error, "name") /\ error.name = "AbortError"
    THEN Returned([valid |-> FALSE, error |-> "NETWORK_ERROR",
                   message |-> Message(<<"Request timeout">>)])
    ELSE Returned([valid |-> FALSE, error |-> "NETWORK_ERROR",
                   message |-> IF Has(error, "name") THEN error.message
                               ELSE Message(<<"Unknown error">>)])

\* The try block of applyDiscountCode after the await.
applyTry(data) ==
    IF ~Truthy(data) \/ ~Truthy(Member(data, "sauwaApplyDiscountCode"))
    THEN Thrown(PropertyOfUndefined)
    ELSE LET answer == data.sauwaApplyDiscountCode
         IN  Returned([success |-> answer.success,
                       message |-> answer.message,
                       discountApplied |-> OrUndefined(answer.discountApplied)])

\* The message of the error is left out of the result.
applyCatchFixedMessage(error) ==
    Returned([success |-> FALSE,
              message |-> Message(<<"Error applying discount">>)])

\* The catch block of applyDiscountCode.
applyCatch(error) ==
    LET errorMessage == IF Has(error, "name") THEN error.message
                        ELSE Message(<<"Unknown error">>)
    IN  Returned([success |-> FALSE,
                  message |-> Message(<<"Error applying discount: ">>
                                        \o errorMessage.parts)])

\* ------------------------------------------------------------------ the GraphQL client: one call

storeVars == <<discountCode, discountState, appliedDiscount, discountError,
               storage>>

\* The call is awaiting graphqlQuery.
Awaiting(fn) == call # Null /\ call.fn = fn /\ settlement = Null

\* validateDiscountCode(code, subtotalCents) up to its await: the timer is
\* armed and the query handed to graphqlQuery with its variables.
validateDiscountCode(code, subtotalCents) ==
    /\ call = Null
    /\ call' = [fn |-> "validateDiscountCode", code |-> code,
                subtotalCents |-> subtotalCents, at |-> now]
    /\ aborted' = FALSE
    /\ timeoutId' = Num(now + TimeoutSeconds)
    /\ request' = [query |-> "ValidateDiscountCode",
                   variables |-> [code |-> normalizedCode(code),
                                  subtotalCents |-> subtotalCents]]
    /\ settlement' = Null
    /\ result' = Void
    /\ threw' = FALSE
    /\ UNCHANGED <<blogVars, storeVars, now>>

\* graphqlQuery resolves with data: the rest of the try block runs, and the
\* catch block when it throws.
validateResolved(data) ==
    /\ Awaiting("validateDiscountCode")
    /\ settlement' = [data |-> data]
    /\ timeoutId' = Null
    /\ LET tried == validateTry(data, now)
           outcome == IF tried.threw THEN validateCatch(tried.value) ELSE tried
       IN  result' = outcome.value /\ threw' = outcome.threw
    /\ UNCHANGED <<blogVars, storeVars, now, call, request, aborted>>

\* graphqlQuery rejects: the catch block runs.
validateRejected(error) ==
    /\ Awaiting("validateDiscountCode")
    /\ settlement' = [error |-> error]
    /\ timeoutId' = Null
    /\ LET outcome == validateCatch(error)
       IN  result' = outcome.value /\ threw' = outcome.threw
    /\ UNCHANGED <<blogVars, storeVars, now, call, request, aborted>>

\* applyDiscountCode(code, bookingId) up to its await.
applyDiscountCode(code, bookingId) ==
    /\ call = Null
    /\ call' = [fn |-> "applyDiscountCode", code |-> code,
                bookingId |-> bookingId, at |-> now]
    /\ aborted' = FALSE
    /\ timeoutId' = Num(now + TimeoutSeconds)
    /\ request' = [query |-> "ApplyDiscountCode",
                   variables |-> [code |-> normalizedCode(code),
                                  bookingId |-> bookingId]]
    /\ settlement' = Null
    /\ result' = Void
    /\ threw' = FALSE
    /\ UNCHANGED <<blogVars, storeVars, now>>

applyResolved(data) ==
    /\ Awaiting("applyDiscountCode")
    /\ settlement' = [data |-> data]
    /\ timeoutId' = Null
    /\ LET tried == applyTry(data)
           outcome == IF tried.threw THEN applyCatch(tried.value) ELSE tried
       IN  result' = outcome.value /\ threw' = outcome.threw
    /\ UNCHANGED <<blogVars, storeVars, now, call, request, aborted>>

applyRejected(error) ==
    /\ Awaiting("applyDiscountCode")
    /\ settlement' = [error |-> error]
    /\ timeoutId' = Null
    /\ LET outcome == applyCatch(error)
       IN  result' = outcome.value /\ threw' = outcome.threw
    /\ UNCHANGED <<blogVars, storeVars, now, call, request, aborted>>

\* The timer is due: () => controller.abort() runs. The signal of the
\* controller was handed to nobody, so nothing else changes.
TimeoutFires ==
    /\ timeoutId = Num(now)
    /\ aborted' = TRUE
    /\ timeoutId' = Null
    /\ UNCHANGED <<blogVars, storeVars, now, call, request, settlement, result, threw>>

\* A second passes while the call is awaiting; a due timer runs first.
ClientTick ==
    /\ call # Null
    /\ settlement = Null
    /\ now < MaxClock
    /\ timeoutId # Num(now)
    /\ now' = now + 1
    /\ UNCHANGED <<blogVars, storeVars, call, request, timeoutId, aborted, settlement,
                   result, threw>>

InitClient ==
    /\ NoCall
    /\ NoBlog
    /\ discountCode = <<>>
    /\ discountState = "idle"
    /\ appliedDiscount = Null
    /\ discountError = NullError
    /\ storage = Absent
    /\ now = 0
    /\ result = Void
    /\ threw = FALSE

NextClient ==
    \/ \E code \in RawCodes, subtotalCents \in Subtotals :
          validateDiscountCode(code, subtotalCents)
    \/ \E data \in ValidationPayloads : validateResolved(data)
    \/ \E error \in Rejections : validateRejected(error)
    \/ \E code \in RawCodes, bookingId \in BookingIds :
          applyDiscountCode(code, bookingId)
    \/ \E data \in ApplicationPayloads : applyResolved(data)
    \/ \E error \in Rejections : applyRejected(error)
    \/ TimeoutFires
    \/ ClientTick

SpecClient == InitClient /\ [][NextClient]_vars

\* ------------------------------------------------------------------ claims

\* The four store fields as the module initialises them.
InitialStore ==
    /\ discountCode = <<>>
    /\ discountState = "idle"
    /\ appliedDiscount = Null
    /\ discountError = NullError

\* A value with the members of a Discount of the WDA-1023 schema.
IsDiscountRecord(v) ==
    /\ DOMAIN v = {FieldOrder[i] : i \in 1..Len(FieldOrder)}
    /\ v.type \in DiscountTypes
    /\ v.status \in DiscountStatuses

\* The expiry rule as the specification words it: status inactive or expired,
\* or a validity end strictly before t.
BeforeNow(d, t) == Has(d.validUntil, "iso") /\ d.validUntil.iso < t
ExpiredByRule(d, t) == d.status \in {"inactive", "expired"} \/ BeforeNow(d, t)

\* C1: from any store state, setValid(d) leaves appliedDiscount = d,
\* status 'valid', error null and code '', for every discount d.
C1_SetValid ==
    /\ [](\A d \in Discounts : ENABLED setValid(d))
    /\ [][\A d \in Discounts :
            setValid(d) =>
               /\ appliedDiscount' = d
               /\ discountState' = "valid"
               /\ discountError' = NullError
               /\ discountCode' = <<>>]_vars

\* A discount has just been applied.
C1_Witness ==
    /\ discountState = "valid"
    /\ appliedDiscount \in Discounts
    /\ discountCode = <<>>
    /\ discountError = NullError

\* C2: from any store state, setError(category) leaves error = category,
\* status 'error' and appliedDiscount null.
C2_SetError ==
    /\ [](\A e \in DiscountErrorTypes : ENABLED setError(e))
    /\ [][\A e \in DiscountErrorTypes :
            setError(e) =>
               /\ discountError' = e
               /\ discountState' = "error"
               /\ appliedDiscount' = Null]_vars

\* An error has just been set: no discount in the atom nor under the key.
C2_Witness ==
    /\ discountState = "error"
    /\ discountError \in DiscountErrorTypes
    /\ appliedDiscount = Null
    /\ storage = <<Lit("null")>>

\* C3: from every reachable state clearDiscount() yields exactly the initial
\* store with no persisted discount, and a second clearDiscount() changes
\* nothing.
C3_Clear ==
    /\ [](ENABLED clearDiscount)
    /\ [][clearDiscount =>
            /\ InitialStore'
            /\ restore(storage', now').value = Null
            /\ (ENABLED (clearDiscount /\ UNCHANGED vars))']_vars

\* The state clearDiscount() leaves, later than the session's start: the
\* four fields initial, 'null' under the key, and a further clearDiscount()
\* changing nothing.
C3_Witness ==
    /\ InitialStore
    /\ storage = <<Lit("null")>>
    /\ now > 0
    /\ ENABLED (clearDiscount /\ UNCHANGED vars)

\* trim + uppercase, stated on the characters: out is raw without its leading
\* and trailing spaces, every 'a' replaced by 'A'.
IsTrimmedUppercase(raw, out) ==
    \E i, j \in 0..Len(raw) :
        /\ i + j <= Len(raw)
        /\ \A k \in 1..i : raw[k] = " "
        /\ \A k \in (Len(raw) - j + 1)..Len(raw) : raw[k] = " "
        /\ LET mid == SubSeq(raw, i + 1, Len(raw) - j)
           IN  /\ mid = <<>> \/ (mid[1] # " " /\ mid[Len(mid)] # " ")
               /\ Len(out) = Len(mid)
               /\ \A k \in 1..Len(mid) :
                     out[k] = (IF mid[k] = "a" THEN "A" ELSE mid[k])

\* The raw inputs sanitizeCode maps to each code, computed once. A step of
\* setDiscountCode(raw) stores sanitizeCode(raw), so C4 needs to look only at
\* the raw inputs that give the code the step stored.
RawCodesGiving ==
    [c \in {sanitizeCode(r) : r \in RawCodes} |->
        {r \in RawCodes : sanitizeCode(r) = c}]

\* C4: setDiscountCode(raw) stores trim + uppercase of raw; with an error set
\* it clears the error and resets status to idle, without one it leaves the
\* status; appliedDiscount is unchanged in both cases.
C4_SetDiscountCode ==
    [][\A raw \in RawCodesGiving[discountCode'] :
         setDiscountCode(raw) =>
            /\ IsTrimmedUppercase(raw, discountCode')
            /\ discountError # NullError =>
                  discountError' = NullError /\ discountState' = "idle"
            /\ discountError = NullError => discountState' = discountState
            /\ appliedDiscount' = appliedDiscount]_vars

\* A code with an inner space was stored over an applied discount.
C4_Witness ==
    /\ discountCode = <<"A", " ", "A">>
    /\ discountState = "valid"
    /\ appliedDiscount \in Discounts

\* C5: setValidating() is enabled in every state, sets status 'validating'
\* and error null, leaves code and appliedDiscount, and a second call changes
\* nothing.
C5_SetValidating ==
    /\ [](ENABLED setValidating)
    /\ [][setValidating =>
            /\ discountState' = "validating"
            /\ discountError' = NullError
            /\ UNCHANGED <<discountCode, appliedDiscount>>
            /\ (ENABLED (setValidating /\ UNCHANGED vars))']_vars

\* Validation began over a typed code and an applied discount.
C5_Witness ==
    /\ discountState = "validating"
    /\ discountError = NullError
    /\ discountCode # <<>>
    /\ appliedDiscount \in Discounts

\* C6: after revalidateStoredDiscount() the applied discount is null or not
\* expired under the expiry rule at that moment; a stored discount with status
\* 'expired' or 'inactive' is discarded and the store reset as by
\* clearDiscount(); a stored unexpired discount leaves the four fields.
C6_Revalidate ==
    [][revalidateStoredDiscount =>
         /\ appliedDiscount' = Null \/ ~ExpiredByRule(appliedDiscount', now')
         /\ (appliedDiscount # Null
               /\ appliedDiscount.status \in {"expired", "inactive"}) =>
               (InitialStore' /\ restore(storage', now').value = Null)
         /\ (appliedDiscount # Null /\ ~ExpiredByRule(appliedDiscount, now)) =>
               UNCHANGED <<discountCode, discountState, appliedDiscount,
                           discountError>>]_vars

\* The state revalidateStoredDiscount() leaves once the applied discount's
\* validity end has passed: the store reset, 'null' under the key.
C6_Witness ==
    /\ InitialStore
    /\ storage = <<Lit("null")>>
    /\ result = Void
    /\ now = MaxTime

\* C7: a discount whose validUntil is strictly before now is expired whatever
\* its status; an active discount whose validUntil is null or not before now
\* is not expired.
C7_ExpiryRule ==
    \A d \in (Discounts \cup {appliedDiscount}) \ {Null} :
        /\ BeforeNow(d, now) => isDiscountExpired(d, now)
        /\ (d.status = "active" /\ ~BeforeNow(d, now)) =>
              ~isDiscountExpired(d, now)

\* An active discount is held past its validity end, and the check says so.
C7_Witness ==
    /\ appliedDiscount # Null
    /\ appliedDiscount.status = "active"
    /\ BeforeNow(appliedDiscount, now)
    /\ isDiscountExpired(appliedDiscount, now)

\* C8: a page reload leaves code '', status 'idle', error null, and the
\* appliedDiscount held just before it when that discount is not expired at
\* reload time, null otherwise.
C8_Reload ==
    [][Reload =>
         /\ discountCode' = <<>>
         /\ discountState' = "idle"
         /\ discountError' = NullError
         /\ appliedDiscount' =
               (IF appliedDiscount # Null /\ ~ExpiredByRule(appliedDiscount, now)
                THEN appliedDiscount
                ELSE Null)]_vars

\* A discount survived a reload: it is applied while the status is idle.
C8_Witness ==
    /\ appliedDiscount \in Discounts
    /\ discountState = "idle"
    /\ appliedDiscount.validUntil # Null

\* The text is the serialization of a Discount.
IsDiscountText(text) ==
    LET parsed == JSONParse(text)
    IN  ~parsed.threw /\ IsDiscountRecord(parsed.value)

\* C9: when the text under the key is corrupt or is not the serialization of
\* a Discount, the loaded store has appliedDiscount = null and no error was
\* raised. (Every write of the store replaces the text, so a state with such
\* a text under the key has its appliedDiscount from the load.)
C9_CorruptIsAbsent ==
    (storage # Absent /\ ~IsDiscountText(storage)) =>
        (appliedDiscount = Null /\ ~threw)

\* C10: for every whole price and every applied discount or none,
\* getDiscountCalculation(price) returns finalPrice + discountAmount = price.
C10_SumIsPrice ==
    [][\A p \in Prices :
         getDiscountCalculation(p) =>
            result'.finalPrice + result'.discountAmount = p]_vars

\* A percentage discount gave a discount that is no whole number.
C10_Witness ==
    /\ result # Void
    /\ appliedDiscount # Null
    /\ appliedDiscount.type = "percentage"
    /\ result.discountAmount % 100 # 0
    /\ result.finalPrice > 0

\* |n|
Abs(n) == IF n < 0 THEN -n ELSE n

\* C11 as stated: for a whole price, getDiscountCalculation(price) returns a
\* whole discountAmount, the whole number nearest to price * amount / 100,
\* under a percentage discount, and min(amount, price) under a fixed one.
C11_WholeRounded ==
    [][\A p \in Prices :
         (getDiscountCalculation(p) /\ appliedDiscount # Null) =>
            IF appliedDiscount.type = "percentage"
            THEN /\ result'.discountAmount % 100 = 0
                 /\ 2 * Abs(10000 * result'.discountAmount
                              - p * appliedDiscount.amount) <= 1000000
            ELSE result'.discountAmount =
                    (IF appliedDiscount.amount < p
                     THEN appliedDiscount.amount ELSE p)]_vars

\* C11 amended: under a percentage discount the discountAmount is
\* price * amount / 100 rounded to the nearest hundredth of the price's unit
\* (either neighbour at an exact half); under a fixed discount it is
\* min(amount, price).
C11_HundredthRounded ==
    [][\A p \in Prices :
         (getDiscountCalculation(p) /\ appliedDiscount # Null) =>
            IF appliedDiscount.type = "percentage"
            THEN 2 * Abs(10000 * result'.discountAmount
                           - p * appliedDiscount.amount) <= 10000
            ELSE result'.discountAmount =
                    (IF appliedDiscount.amount < p
                     THEN appliedDiscount.amount ELSE p)]_vars

\* 20 percent of the price 1 was calculated: 0.2, which is no whole number.
C11_Witness ==
    /\ result # Void
    /\ appliedDiscount # Null
    /\ appliedDiscount.type = "percentage"
    /\ appliedDiscount.amount = 2000
    /\ result.originalPrice = 100
    /\ result.discountAmount = 20

\* C12: for every price >= 0 and every discount setValid stored,
\* getDiscountCalculation(price) returns discountAmount <= originalPrice and
\* finalPrice >= 0.
C12_DiscountWithinPrice ==
    [][\A p \in Prices :
         getDiscountCalculation(p) =>
            /\ result'.discountAmount <= result'.originalPrice
            /\ result'.finalPrice >= 0]_vars

\* The backend answered the validation query with a payload of the declared
\* shape, and the call has returned.
ValidationAnswered ==
    /\ call # Null
    /\ call.fn = "validateDiscountCode"
    /\ settlement # Null
    /\ Has(settlement, "data")
    /\ settlement.data # Null
    /\ Has(settlement.data, "sauwaValidateDiscountCode")

\* The answer was a failure: not valid, or without a record.
ValidationFailed ==
    /\ ValidationAnswered
    /\ LET answer == settlement.data.sauwaValidateDiscountCode
       IN  ~answer.valid \/ answer.discountCode = Null

\* maxUses > 0 and currentUses >= maxUses
UsesExhausted(d) ==
    /\ d.maxUses # Null
    /\ d.maxUses.num > 0
    /\ d.currentUses >= d.maxUses.num

\* C13: for every failed validation response the error category is the first
\* match of: no record, INVALID_CODE; inactive, INACTIVE; status expired or
\* validUntil before now, EXPIRED; maxUses > 0 and currentUses >= maxUses,
\* NO_USES_LEFT; otherwise UNKNOWN_ERROR. It is never NETWORK_ERROR.
C13_FirstMatch ==
    ValidationFailed =>
        LET d == settlement.data.sauwaValidateDiscountCode.discountCode
            inactive == d.status = "inactive"
            expired == d.status = "expired" \/ BeforeNow(d, now)
        IN  /\ result.error # "NETWORK_ERROR"
            /\ d = Null => result.error = "INVALID_CODE"
            /\ d # Null =>
                 /\ inactive => result.error = "INACTIVE"
                 /\ (~inactive /\ expired) => result.error = "EXPIRED"
                 /\ (~inactive /\ ~expired /\ UsesExhausted(d)) =>
                       result.error = "NO_USES_LEFT"
                 /\ (~inactive /\ ~expired /\ ~UsesExhausted(d)) =>
                       result.error = "UNKNOWN_ERROR"

\* A record both inactive and past its validity end was classified INACTIVE.
C13_Witness ==
    /\ ValidationFailed
    /\ LET d == settlement.data.sauwaValidateDiscountCode.discountCode
       IN  /\ d # Null
           /\ d.status = "inactive"
           /\ BeforeNow(d, now)
    /\ result.error = "INACTIVE"

\* The result validateDiscountCode gives for a timeout.
RequestTimeout ==
    [valid |-> FALSE, error |-> "NETWORK_ERROR",
     message |-> Message(<<"Request timeout">>)]

\* C14: once more than 5 seconds have passed since the call was made without
\* an answer of the backend in that time, the call is not pending: it has
\* resolved to a failure, and validateDiscountCode to
\* {valid:false, error:'NETWORK_ERROR', message:'Request timeout'}.
C14_TimeoutResolves ==
    (call # Null /\ now > call.at + TimeoutSeconds) =>
        /\ settlement # Null
        /\ result # Void
        /\ call.fn = "validateDiscountCode" => result = RequestTimeout
        /\ call.fn = "applyDiscountCode" => ~result.success

\* The validation call has returned after the network call failed: it
\* rejected, or resolved with a payload without the answer.
ValidationBroke ==
    /\ call # Null
    /\ call.fn = "validateDiscountCode"
    /\ settlement # Null
    /\ ~ValidationAnswered

\* The error the catch block of the finished call received.
CaughtError ==
    IF Has(settlement, "error") THEN settlement.error ELSE PropertyOfUndefined

\* The message of a caught error, 'Unknown error' for a value that is no Error.
MessageOrUnknown(error) ==
    IF Has(error, "message") THEN error.message
    ELSE Message(<<"Unknown error">>)

\* C15 as stated: validateDiscountCode lets no exception escape, and whenever
\* the network call rejects or resolves with a malformed payload the result is
\* {valid:false, error:'NETWORK_ERROR'} with the message of the underlying
\* error, or 'Unknown error', as message.
C15_UnderlyingMessage ==
    /\ (call # Null /\ call.fn = "validateDiscountCode") => ~threw
    /\ ValidationBroke =>
          result = [valid |-> FALSE, error |-> "NETWORK_ERROR",
                    message |-> MessageOrUnknown(CaughtError)]

\* C15 amended: as stated, except that for an error named AbortError the
\* message is 'Request timeout' and not the message of the error.
C15_UnderlyingOrTimeout ==
    /\ (call # Null /\ call.fn = "validateDiscountCode") => ~threw
    /\ ValidationBroke =>
          result = [valid |-> FALSE, error |-> "NETWORK_ERROR",
                    message |->
                       IF Has(CaughtError, "name") /\ CaughtError.name = "AbortError"
                       THEN Message(<<"Request timeout">>)
                       ELSE MessageOrUnknown(CaughtError)]

\* A payload without the answer was received and reported as a network error
\* with the TypeError's message.
C15_Witness ==
    /\ ValidationBroke
    /\ Has(settlement, "data")
    /\ result.error = "NETWORK_ERROR"
    /\ result.message = PropertyOfUndefined.message

\* The members of a JS object that are present with a value.
Carries(obj, f) == Has(obj, f) /\ obj[f] \notin {Null, Undefined}

\* validateDiscountCode has returned.
ValidationReturned ==
    /\ call # Null
    /\ call.fn = "validateDiscountCode"
    /\ result # Void

\* The failure shape: one error category, no discount.
FailureShape ==
    /\ ~result.valid
    /\ Has(result, "error") /\ result.error \in DiscountErrorTypes
    /\ ~Carries(result, "discount")

\* valid = true only for an answer valid:true with a record.
ValidOnlyWhenAnswered ==
    result.valid =>
        /\ ValidationAnswered
        /\ settlement.data.sauwaValidateDiscountCode.valid
        /\ settlement.data.sauwaValidateDiscountCode.discountCode # Null

\* C16 as stated: every result of validateDiscountCode is valid = true with
\* the discount record, a calculated discount amount and a final price and no
\* error, or valid = false with one error category and no discount; valid =
\* true occurs only for an answer valid:true with a non-null record.
C16_TwoShapes ==
    ValidationReturned =>
        /\ \/ /\ result.valid
              /\ Carries(result, "discount")
              /\ Carries(result, "calculatedDiscount")
              /\ Carries(result, "finalPriceCents")
              /\ ~Carries(result, "error")
           \/ FailureShape
        /\ ValidOnlyWhenAnswered

\* C16 amended: the valid shape carries the discount record and no error, and
\* carries the calculated discount amount and the final price exactly when
\* the backend supplied them (each is absent when the backend answered null
\* for it); the rest as stated.
C16_TwoShapesAmountsWhenSupplied ==
    ValidationReturned =>
        /\ \/ /\ result.valid
              /\ Carries(result, "discount")
              /\ ~Carries(result, "error")
              /\ LET answer == settlement.data.sauwaValidateDiscountCode
                 IN  /\ Carries(result, "calculatedDiscount") <=>
                           answer.calculatedDiscount # Null
                     /\ Carries(result, "finalPriceCents") <=>
                           answer.finalPriceCents # Null
           \/ FailureShape
        /\ ValidOnlyWhenAnswered

\* Both shapes' edge: a valid answer without amounts was returned as valid
\* with the record and no amounts.
C16_Witness ==
    /\ ValidationReturned
    /\ result.valid
    /\ Carries(result, "discount")
    /\ ~Carries(result, "calculatedDiscount")

\* C17: the code handed to graphqlQuery by validateDiscountCode and by
\* applyDiscountCode is the input code trimmed and uppercased, and on a valid
\* answer the result's calculatedDiscount and finalPriceCents are the
\* backend's: the same number, and no value where the backend gave null.
C17_NormalizedAndPassedThrough ==
    /\ call # Null => IsTrimmedUppercase(call.code, request.variables.code)
    /\ (ValidationReturned /\ result.valid) =>
          LET answer == settlement.data.sauwaValidateDiscountCode
          IN  /\ answer.calculatedDiscount # Null =>
                    result.calculatedDiscount = answer.calculatedDiscount
              /\ answer.finalPriceCents # Null =>
                    result.finalPriceCents = answer.finalPriceCents
              /\ answer.calculatedDiscount = Null =>
                    ~Carries(result, "calculatedDiscount")
              /\ answer.finalPriceCents = Null =>
                    ~Carries(result, "finalPriceCents")

\* A code typed in lower case between spaces was sent as "A" with the
\* subtotal 5000, and the backend's 1000 and 4000 came back in the result.
C17_Witness ==
    /\ ValidationReturned
    /\ call.code = <<" ", "a", " ">>
    /\ request.variables = [code |-> <<"A">>, subtotalCents |-> 5000]
    /\ result.valid
    /\ result.calculatedDiscount = Num(1000)
    /\ result.finalPriceCents = Num(4000)

\* The backend answered the application mutation with a payload of the
\* declared shape.
ApplicationAnswered ==
    /\ Has(settlement, "data")
    /\ settlement.data # Null
    /\ Has(settlement.data, "sauwaApplyDiscountCode")

\* The text is one of the pieces of the message.
ContainsText(message, text) ==
    \E i \in 1..Len(message.parts) : <<message.parts[i]>> = text.parts

\* C18: applyDiscountCode lets no exception escape; on an answer of the
\* backend it returns the backend's success flag and message, and
\* discountApplied when the backend supplied it; when the network call
\* rejects or the payload is malformed it returns success = false with a
\* message that contains the text of the underlying error ('Unknown error'
\* for a rejection value that is no Error and has no text).
C18_ApplyResult ==
    (call # Null /\ call.fn = "applyDiscountCode") =>
        /\ ~threw
        /\ settlement # Null =>
              IF ApplicationAnswered
              THEN LET answer == settlement.data.sauwaApplyDiscountCode
                   IN  /\ result.success = answer.success
                       /\ result.message = answer.message
                       /\ answer.discountApplied # Null =>
                             result.discountApplied = answer.discountApplied
              ELSE /\ ~result.success
                   /\ ContainsText(result.message, MessageOrUnknown(CaughtError))

\* The fetch failed and the result says so with the error's text.
C18_Witness ==
    /\ call # Null
    /\ call.fn = "applyDiscountCode"
    /\ settlement = [error |-> Error("TypeError", "Failed to fetch")]
    /\ ~result.success
    /\ result.message =
          Message(<<"Error applying discount: ", "Failed to fetch">>)

\* ------------------------------------------------------------------ the error display helpers

\* DiscountErrorType as types/discount-errors declares it.
DisplayErrorTypes ==
    {"INVALID_CODE", "EXPIRED", "NO_USES_LEFT", "ALREADY_USED", "INACTIVE",
     "NETWORK_ERROR", "VALIDATION_ERROR"}

Severities == {"error", "warning", "info"}

DiscountErrorConfig(title, description, icon, severity) ==
    [title |-> title, description |-> description, icon |-> icon,
     severity |-> severity]

ERROR_MESSAGES ==
    [errorType \in DisplayErrorTypes |->
        CASE errorType = "INVALID_CODE" ->
               DiscountErrorConfig("Codigo no valido",
                   "El codigo de descuento introducido no existe. Por favor, verifica que lo has escrito correctamente.",
                   "x-circle", "error")
          [] errorType = "EXPIRED" ->
               DiscountErrorConfig("Codigo expirado",
                   "Este codigo de descuento ya no es valido. Ha superado su fecha de caducidad.",
                   "clock", "warning")
          [] errorType = "NO_USES_LEFT" ->
               DiscountErrorConfig("Codigo agotado",
                   "Este codigo de descuento ha alcanzado su limite maximo de usos.",
                   "ban", "warning")
          [] errorType = "ALREADY_USED" ->
               DiscountErrorConfig("Codigo ya utilizado",
                   "Ya has utilizado este codigo de descuento anteriormente. Solo se permite un uso por usuario.",
                   "user-x", "warning")
          [] errorType = "INACTIVE" ->
               DiscountErrorConfig("Codigo inactivo",
                   "Este codigo de descuento no esta activo actualmente.",
                   "pause-circle", "info")
          [] errorType = "NETWORK_ERROR" ->
               DiscountErrorConfig("Error de conexion",
                   "No se ha podido validar el codigo. Por favor, comprueba tu conexion e intentalo de nuevo.",
                   "wifi-off", "error")
          [] errorType = "VALIDATION_ERROR" ->
               DiscountErrorConfig("Error de validacion",
                   "Ha ocurrido un error al validar el codigo. Por favor, intentalo de nuevo.",
                   "alert-triangle", "error")]

\* ERROR_MESSAGES[errorType]: undefined for a key the object does not have.
getErrorConfig(errorType) ==
    IF errorType \in DOMAIN ERROR_MESSAGES THEN ERROR_MESSAGES[errorType]
    ELSE Undefined

\* Only a wrong code counts as recoverable.
isRecoverableErrorInvalidOnly(errorType) == errorType = "INVALID_CODE"

isRecoverableError(errorType) ==
    errorType = "INVALID_CODE" \/ errorType = "NETWORK_ERROR"

\* A JS boolean as a returned value.
Bool(b) == [bool |-> b]

\* The categories the store's error can be set to: those the validation
\* client produces and those the display helpers declare.
ErrorTypesInUse == DiscountErrorTypes \cup DisplayErrorTypes

\* getErrorConfig(discountError.get()): the bundle shown for the store's error.
showErrorConfig ==
    /\ discountError # NullError
    /\ result' = getErrorConfig(discountError)
    /\ threw' = FALSE
    /\ UNCHANGED <<storeVars, now, clientVars, blogVars>>

\* isRecoverableError(discountError.get())
showRecoverable ==
    /\ discountError # NullError
    /\ result' = Bool(isRecoverableError(discountError))
    /\ threw' = FALSE
    /\ UNCHANGED <<storeVars, now, clientVars, blogVars>>

NextDisplay ==
    \/ \E code \in RawCodes : setDiscountCode(code)
    \/ \E error \in ErrorTypesInUse : setError(error)
    \/ clearDiscount
    \/ showErrorConfig
    \/ showRecoverable

SpecDisplay == Init /\ [][NextDisplay]_vars

\* getErrorConfig, and isRecoverableError, returned for the store's error.
ConfigShown == discountError # NullError /\ result # Void /\ ~Has(result, "bool")
RecoverableShown == discountError # NullError /\ Has(result, "bool")

\* C19: each of the six categories of the validation client maps through
\* getErrorConfig to a bundle with title, description, icon and a severity of
\* error, warning or info; none maps to a missing bundle.
C19_EveryCategoryHasBundle ==
    (ConfigShown /\ discountError \in DiscountErrorTypes) =>
        /\ result # Undefined
        /\ Has(result, "title")
        /\ Has(result, "description")
        /\ Has(result, "icon")
        /\ Has(result, "severity")
        /\ result.severity \in Severities

\* C20: isRecoverableError returns true for INVALID_CODE and NETWORK_ERROR and
\* false for every other category.
C20_RecoverableExactly ==
    RecoverableShown =>
        (result.bool <=> discountError \in {"INVALID_CODE", "NETWORK_ERROR"})

\* A network error was reported recoverable.
C20_Witness ==
    /\ discountError = "NETWORK_ERROR"
    /\ result = Bool(TRUE)

\* ------------------------------------------------------------------ the status machine

\* C21 as stated: whenever the status is 'validating', the next different
\* status is 'valid' or 'error'; no step moves it from 'validating' to any
\* other value.
C21_ValidatingToValidOrError ==
    [][(discountState = "validating" /\ discountState' # "validating") =>
          discountState' \in {"valid", "error"}]_vars

\* C21 amended: from 'validating' the next different status is 'valid',
\* 'error', or 'idle' by a reset (clearDiscount, revalidateStoredDiscount
\* discarding an expired discount, or a page reload), which leaves the code
\* '' and the error null; editing the code leaves 'validating'.
C21_ValidatingToValidErrorOrReset ==
    [][(discountState = "validating" /\ discountState' # "validating") =>
          \/ discountState' \in {"valid", "error"}
          \/ /\ discountState' = "idle"
             /\ discountCode' = <<>>
             /\ discountError' = NullError]_vars

\* The status is 'validating' over a typed code while the discount held has
\* expired: revalidateStoredDiscount resets from here.
C21_Witness ==
    /\ discountState = "validating"
    /\ discountCode # <<>>
    /\ appliedDiscount # Null
    /\ isDiscountExpired(appliedDiscount, now)

\* ------------------------------------------------------------------ the derived reads

\* maxUses and currentUses of the discounts read: no cap, a cap of 0, a cap
\* of 1 unused and used, a larger cap.
ReadUses ==
    {<<Null, 10>>, <<Num(0), 10>>, <<Num(1), 0>>, <<Num(1), 1>>,
     <<Num(100), 10>>}

ReadDiscounts ==
    {[Discount(ty, a, Null, "active") EXCEPT
         !.maxUses = u[1], !.currentUses = u[2]] :
        ty \in DiscountTypes, a \in {1250, 2000}, u \in ReadUses}

\* computed(appliedDiscount, (discount) => discount !== null)
isDiscountApplied(discount) == discount # Null

discountPercentage(discount) ==
    IF ~Truthy(discount) THEN 0
    ELSE IF discount.type = "percentage" THEN discount.amount ELSE 0

\* The cap is returned and the uses made are not subtracted.
remainingUsesCapOnly(discount) ==
    IF ~Truthy(discount) THEN Null
    ELSE IF discount.maxUses = Null \/ discount.maxUses = Num(0) THEN Null
    ELSE discount.maxUses

remainingUses(discount) ==
    IF ~Truthy(discount) THEN Null
    ELSE IF discount.maxUses = Null \/ discount.maxUses = Num(0) THEN Null
    ELSE Num(discount.maxUses.num - discount.currentUses)

\* discount?.maxUses === 1
isOneTimeUse(discount) == Truthy(discount) /\ discount.maxUses = Num(1)

\* The four computed stores are read.
readComputed ==
    /\ result' = [isDiscountApplied |-> isDiscountApplied(appliedDiscount),
                  discountPercentage |-> discountPercentage(appliedDiscount),
                  remainingUses |-> remainingUses(appliedDiscount),
                  isOneTimeUse |-> isOneTimeUse(appliedDiscount)]
    /\ threw' = FALSE
    /\ UNCHANGED <<storeVars, now, clientVars, blogVars>>

NextReads ==
    \/ setValidating
    \/ \E discount \in ReadDiscounts : setValid(discount)
    \/ \E error \in DiscountErrorTypes : setError(error)
    \/ clearDiscount
    \/ readComputed

SpecReads == Init /\ [][NextReads]_vars

\* C22: in every store state the derived reads are functions of
\* appliedDiscount alone: isDiscountApplied iff it is non-null;
\* discountPercentage its amount when it is a percentage discount, 0 when it
\* is fixed or absent; remainingUses null when it is absent or uncapped
\* (maxUses null or 0), maxUses - currentUses otherwise; isOneTimeUse iff
\* maxUses is 1.
C22_DerivedReads ==
    Has(result, "remainingUses") =>
        LET d == appliedDiscount
            capped == d # Null /\ d.maxUses # Null /\ d.maxUses.num # 0
        IN  /\ result.isDiscountApplied <=> d # Null
            /\ (d # Null /\ d.type = "percentage") =>
                  result.discountPercentage = d.amount
            /\ (d = Null \/ d.type = "fixed") => result.discountPercentage = 0
            /\ ~capped => result.remainingUses = Null
            /\ capped =>
                  result.remainingUses = Num(d.maxUses.num - d.currentUses)
            /\ result.isOneTimeUse <=> (d # Null /\ d.maxUses = Num(1))

\* A capped percentage discount was read: 90 uses remain.
C22_Witness ==
    /\ Has(result, "remainingUses")
    /\ appliedDiscount # Null
    /\ appliedDiscount.type = "percentage"
    /\ result.remainingUses = Num(90)
    /\ result.discountPercentage = 2000
    /\ ~result.isOneTimeUse

\* ------------------------------------------------------------------ the blog queries: values

MaxPosts == 2
MaxLongPosts == 12
MaxBlogClock == 2

\* CACHE_TTL, five minutes; the blog clock counts units of five minutes.
CACHE_TTL == 1

DefaultLanguage == [str |-> "ES"]
DefaultPostsPerPage == 9

\* post.language of a backend post: Spanish, English, or none.
PostLanguages == {[code |-> "ES"], [code |-> "EN"], Null}

Post(id, language) == [id |-> id, slug |-> id, language |-> language]

\* What the backend can hold: every list of at most MaxPosts posts in every
\* assignment of languages, and one long list of Spanish posts.
Backends ==
    UNION {{[i \in 1..n |-> Post(i, l[i])] : l \in [1..n -> PostLanguages]} :
             n \in 0..MaxPosts}
    \cup {[i \in 1..MaxLongPosts |-> Post(i, [code |-> "ES"])]}

\* A decimal string, as the sequence of its digits.
Cursor(digits) == [digits |-> digits]

\* variables.language, variables.first, variables.after, variables.categoryName
\* A JS string value.
Str(text) == [str |-> text]

RequestedLanguages == {Undefined, Str("en")}
Firsts == {Undefined, Num(1), Num(2)}
Afters == {Undefined, Cursor(<<0>>), Cursor(<<1>>), Cursor(<<3>>)}
CategoryNames == {Undefined}
Slugs == {0, 1}

CategoriesPayloads == {[categories |-> [nodes |-> <<>>]]}

\* What graphqlQuery rejects with.
BlogRejections == {Error("Error", "GraphQL request failed")}

\* ------------------------------------------------------------------ the blog queries: functions

\* String.prototype.toUpperCase on the locale codes in use.
localeToUpperCase(locale) ==
    CASE locale = "en" -> "EN"
      [] locale = "es" -> "ES"
      [] locale = "ca" -> "CA"
      [] OTHER -> locale

\* Array.prototype.slice(start, end) with 0 <= start <= end.
slice(array, start, end) ==
    IF start >= Len(array) THEN <<>>
    ELSE SubSeq(array, start + 1, Min(end, Len(array)))

\* Number.prototype.toString of a non-negative integer.
RECURSIVE toDigits(_)
toDigits(n) ==
    IF n < 10 THEN <<n>> ELSE Append(toDigits(n \div 10), n % 10)

toString(n) == Cursor(toDigits(n))

\* parseInt(text, 10) of a string of digits.
RECURSIVE fromDigits(_)
fromDigits(digits) ==
    IF digits = <<>> THEN 0
    ELSE 10 * fromDigits(SubSeq(digits, 1, Len(digits) - 1))
            + digits[Len(digits)]

parseInt(text) == fromDigits(text.digits)

getCacheKey(queryName, variables) == <<queryName, "_", variables>>

\* getCachedData(key): what it returns, and the cache it leaves.
cacheExpired(key) == now - cache[key].timestamp > CACHE_TTL

getCachedData(key) ==
    IF key \notin DOMAIN cache THEN Null
    ELSE IF cacheExpired(key) THEN Null
    ELSE cache[key].data

cacheAfterGet(key) ==
    IF key \in DOMAIN cache /\ cacheExpired(key)
    THEN [k \in DOMAIN cache \ {key} |-> cache[k]]
    ELSE cache

\* setCachedData(key, data) on the cache map c.
setCachedData(c, key, data) ==
    [k \in DOMAIN c \cup {key} |->
        IF k = key THEN [data |-> data, timestamp |-> now] ELSE c[k]]

filterPostsWithFallback(posts, requestedLocale, limit) ==
    LET normalizedLocale == localeToUpperCase(requestedLocale.str)
        inRequested(post) ==
            post.language # Null /\ post.language.code = normalizedLocale
        postsInRequestedLanguage == SelectSeq(posts, inRequested)
        isFallback(post) ==
            /\ post.language # Null
            /\ post.language.code = "ES"
            /\ ~\E i \in 1..Len(postsInRequestedLanguage) :
                   postsInRequestedLanguage[i].id = post.id
        fallbackPosts == SelectSeq(posts, isFallback)
        combinedPosts == postsInRequestedLanguage \o fallbackPosts
    IN  IF ~Truthy(limit) \/ Len(postsInRequestedLanguage) >= limit.num
        THEN IF Truthy(limit)
             THEN slice(postsInRequestedLanguage, 0, limit.num)
             ELSE postsInRequestedLanguage
        ELSE IF Truthy(limit) THEN slice(combinedPosts, 0, limit.num)
             ELSE combinedPosts

requestedLanguageOf(variables) ==
    IF Truthy(variables.language) THEN variables.language ELSE DefaultLanguage

allPostsCacheKey(variables) ==
    <<"all", requestedLanguageOf(variables).str,
      IF Truthy(variables.categoryName) THEN variables.categoryName
      ELSE "all">>

\* hasNextPage also when the page ends exactly at the end of the list.
paginateInclusive(allFilteredPosts, variables) ==
    LET postsPerPage == IF Truthy(variables.first) THEN variables.first.num
                        ELSE DefaultPostsPerPage
        offset == IF Truthy(variables.after) THEN parseInt(variables.after)
                  ELSE 0
        nextOffset == offset + postsPerPage
        hasNextPage == nextOffset <= Len(allFilteredPosts)
    IN  [posts |->
           [nodes |-> slice(allFilteredPosts, offset, offset + postsPerPage),
            pageInfo |->
               [hasNextPage |-> hasNextPage,
                hasPreviousPage |-> offset > 0,
                startCursor |-> toString(offset),
                endCursor |-> IF hasNextPage THEN toString(nextOffset)
                              ELSE Null]]]

\* getBlogPosts from the cursor on: the page cut out of the filtered list.
paginate(allFilteredPosts, variables) ==
    LET postsPerPage == IF Truthy(variables.first) THEN variables.first.num
                        ELSE DefaultPostsPerPage
        offset == IF Truthy(variables.after) THEN parseInt(variables.after)
                  ELSE 0
        nextOffset == offset + postsPerPage
        hasNextPage == nextOffset < Len(allFilteredPosts)
    IN  [posts |->
           [nodes |-> slice(allFilteredPosts, offset, offset + postsPerPage),
            pageInfo |->
               [hasNextPage |-> hasNextPage,
                hasPreviousPage |-> offset > 0,
                startCursor |-> toString(offset),
                endCursor |-> IF hasNextPage THEN toString(nextOffset)
                              ELSE Null]]]

\* The backend's answer to GetPostBySlug.
postOfSlug(slug) ==
    IF \E i \in 1..Len(backend) : backend[i].slug = slug
    THEN backend[CHOOSE i \in 1..Len(backend) : backend[i].slug = slug]
    ELSE Null

\* ------------------------------------------------------------------ the blog queries: actions
\* One blog call runs at a time; the clock `now` is Date.now().

\* No blog call is awaiting graphqlQuery.
BlogIdle == call = Null \/ result # Void \/ threw

BlogAwaiting(fn) == Awaiting(fn) /\ request # Null /\ result = Void /\ ~threw

\* getBlogPosts(variables) up to its await, or to its return when the filtered
\* list is cached.
getBlogPosts(variables) ==
    LET allPostsCacheKeyOfCall == allPostsCacheKey(variables)
    IN  /\ BlogIdle
        /\ call' = [fn |-> "getBlogPosts", variables |-> variables]
        /\ settlement' = Null
        /\ threw' = FALSE
        /\ IF allPostsCacheKeyOfCall \in DOMAIN allFilteredPostsCache
           THEN /\ request' = Null
                /\ result' =
                      paginate(allFilteredPostsCache[allPostsCacheKeyOfCall],
                               variables)
           ELSE /\ request' =
                      [query |-> "GetBlogPosts",
                       variables |->
                          [first |-> 100, after |-> Null,
                           categoryName |->
                              IF Truthy(variables.categoryName)
                              THEN variables.categoryName ELSE Null]]
                /\ result' = Void
        /\ UNCHANGED <<storeVars, now, blogVars, timeoutId, aborted>>

\* graphqlQuery resolves with the backend's posts: they are filtered, cached,
\* the expiry timer is armed and the page returned.
postsResolved ==
    /\ BlogAwaiting("getBlogPosts")
    /\ LET data == [posts |-> [nodes |-> backend]]
           key == allPostsCacheKey(call.variables)
           allFilteredPosts ==
               filterPostsWithFallback(data.posts.nodes,
                                       requestedLanguageOf(call.variables),
                                       Undefined)
       IN  /\ settlement' = [data |-> data]
           /\ allFilteredPostsCache' =
                 [k \in DOMAIN allFilteredPostsCache \cup {key} |->
                     IF k = key THEN allFilteredPosts
                     ELSE allFilteredPostsCache[k]]
           /\ timers' = timers \cup {[key |-> key, due |-> now + CACHE_TTL]}
           /\ result' = paginate(allFilteredPosts, call.variables)
    /\ threw' = FALSE
    /\ UNCHANGED <<storeVars, now, backend, cache, call, request, timeoutId,
                   aborted>>

\* graphqlQuery rejects: the error is logged and rethrown.
blogRejected(error) ==
    /\ \E fn \in {"getBlogPosts", "getCategories", "getPostBySlug"} :
          BlogAwaiting(fn)
    /\ settlement' = [error |-> error]
    /\ result' = error
    /\ threw' = TRUE
    /\ UNCHANGED <<storeVars, now, blogVars, call, request, timeoutId,
                   aborted>>

\* The timer armed by getBlogPosts runs: the filtered list is dropped.
expiryFires ==
    \E timer \in timers :
        /\ timer.due <= now
        /\ allFilteredPostsCache' =
              [k \in DOMAIN allFilteredPostsCache \ {timer.key} |->
                  allFilteredPostsCache[k]]
        /\ timers' = timers \ {timer}
        /\ UNCHANGED <<storeVars, now, backend, cache, clientVars, result,
                       threw>>

getCategories ==
    LET cacheKey == getCacheKey("GET_CATEGORIES", "{}")
        cached == getCachedData(cacheKey)
    IN  /\ BlogIdle
        /\ call' = [fn |-> "getCategories"]
        /\ settlement' = Null
        /\ threw' = FALSE
        /\ cache' = cacheAfterGet(cacheKey)
        /\ IF Truthy(cached)
           THEN request' = Null /\ result' = cached
           ELSE /\ request' = [query |-> "GetCategories"]
                /\ result' = Void
        /\ UNCHANGED <<storeVars, now, backend, allFilteredPostsCache, timers,
                       timeoutId, aborted>>

categoriesResolved(data) ==
    /\ BlogAwaiting("getCategories")
    /\ settlement' = [data |-> data]
    /\ cache' = setCachedData(cache, getCacheKey("GET_CATEGORIES", "{}"), data)
    /\ result' = data
    /\ threw' = FALSE
    /\ UNCHANGED <<storeVars, now, backend, allFilteredPostsCache, timers,
                   call, request, timeoutId, aborted>>

getPostBySlug(slug) ==
    LET cacheKey == getCacheKey("GET_POST", [categoryName |-> slug])
        cached == getCachedData(cacheKey)
    IN  /\ BlogIdle
        /\ call' = [fn |-> "getPostBySlug", slug |-> slug]
        /\ settlement' = Null
        /\ threw' = FALSE
        /\ cache' = cacheAfterGet(cacheKey)
        /\ IF Truthy(cached)
           THEN request' = Null /\ result' = cached.post
           ELSE /\ request' = [query |-> "GetPostBySlug",
                               variables |-> [slug |-> slug]]
                /\ result' = Void
        /\ UNCHANGED <<storeVars, now, backend, allFilteredPostsCache, timers,
                       timeoutId, aborted>>

\* data.post is null for an unknown slug: null is returned and nothing cached.
postResolved ==
    /\ BlogAwaiting("getPostBySlug")
    /\ LET data == [post |-> postOfSlug(call.slug)]
           cacheKey == getCacheKey("GET_POST", [categoryName |-> call.slug])
       IN  /\ settlement' = [data |-> data]
           /\ IF ~Truthy(data.post)
              THEN result' = Null /\ cache' = cache
              ELSE /\ cache' = setCachedData(cache, cacheKey, data)
                   /\ result' = data.post
    /\ threw' = FALSE
    /\ UNCHANGED <<storeVars, now, backend, allFilteredPostsCache, timers,
                   call, request, timeoutId, aborted>>

clearBlogCache ==
    /\ cache' = EmptyMap
    /\ UNCHANGED <<storeVars, now, backend, allFilteredPostsCache, timers,
                   clientVars, result, threw>>

\* Five minutes pass; a due timer runs first.
BlogTick ==
    /\ now < MaxBlogClock
    /\ \A timer \in timers : timer.due > now
    /\ now' = now + 1
    /\ UNCHANGED <<storeVars, blogVars, clientVars, result, threw>>

\* The cursor the last page returned, which a reader follows.
FollowedCursors ==
    IF /\ Has(result, "posts")
       /\ result.posts.pageInfo.endCursor # Null
    THEN {result.posts.pageInfo.endCursor}
    ELSE {}

InitBlog ==
    /\ NoCall
    /\ backend \in Backends
    /\ cache = EmptyMap
    /\ allFilteredPostsCache = EmptyMap
    /\ timers = {}
    /\ discountCode = <<>>
    /\ discountState = "idle"
    /\ appliedDiscount = Null
    /\ discountError = NullError
    /\ storage = Absent
    /\ now = 0
    /\ result = Void
    /\ threw = FALSE

\* The post lists: every backend, every page request.
NextPosts ==
    \/ \E language \in RequestedLanguages, first \in Firsts,
          after \in Afters \cup FollowedCursors,
          categoryName \in CategoryNames :
          getBlogPosts([language |-> language, first |-> first,
                        after |-> after, categoryName |-> categoryName])
    \/ postsResolved
    \/ \E error \in BlogRejections : blogRejected(error)
    \/ expiryFires
    \/ BlogTick

SpecPosts == InitBlog /\ [][NextPosts]_vars

\* The three cached reads and clearBlogCache, over a backend of one Spanish
\* post and first pages only.
InitBlogCache ==
    /\ InitBlog
    /\ backend = <<Post(1, [code |-> "ES"])>>

NextBlog ==
    \/ \E language \in RequestedLanguages :
          getBlogPosts([language |-> language, first |-> Undefined,
                        after |-> Undefined, categoryName |-> Undefined])
    \/ postsResolved
    \/ \E error \in BlogRejections : blogRejected(error)
    \/ expiryFires
    \/ getCategories
    \/ \E data \in CategoriesPayloads : categoriesResolved(data)
    \/ \E slug \in Slugs : getPostBySlug(slug)
    \/ postResolved
    \/ clearBlogCache
    \/ BlogTick

SpecBlog == InitBlogCache /\ [][NextBlog]_vars

\* ------------------------------------------------------------------ the blog posts returned

\* getBlogPosts has returned a page.
PostsReturned ==
    /\ call # Null
    /\ call.fn = "getBlogPosts"
    /\ Has(result, "posts")

\* The language code of the call, in capitals.
RequestedCode ==
    IF call.variables.language = Undefined THEN "ES"
    ELSE IF call.variables.language.str = "en" THEN "EN"
    ELSE call.variables.language.str

PageSize ==
    IF call.variables.first = Undefined THEN 9 ELSE call.variables.first.num

\* The backend's posts in one language, in the backend's order.
PostsIn(code) ==
    LET inLanguage(post) == post.language # Null /\ post.language.code = code
    IN  SelectSeq(backend, inLanguage)

FirstOf(list, n) == [i \in 1..Min(n, Len(list)) |-> list[i]]

\* C23: getBlogPosts applies the language fallback: when the requested
\* language has fewer posts than a page holds, or none, the first page is cut
\* from the posts in the requested language followed by the Spanish posts, and
\* it is not empty while Spanish posts exist.
C23_FallbackApplied ==
    (PostsReturned /\ call.variables.after = Undefined) =>
        LET requested == PostsIn(RequestedCode)
            spanish == IF RequestedCode = "ES" THEN <<>> ELSE PostsIn("ES")
        IN  Len(requested) < PageSize =>
               /\ result.posts.nodes = FirstOf(requested \o spanish, PageSize)
               /\ (spanish # <<>>) => result.posts.nodes # <<>>

\* The decimal digits of a number below 100.
Decimal(n) == IF n < 10 THEN <<n>> ELSE <<n \div 10, n % 10>>

\* The offset the call's cursor stands for.
OffsetOfCall ==
    IF call.variables.after = Undefined THEN 0
    ELSE CHOOSE o \in 0..99 : Decimal(o) = call.variables.after.digits

\* The pages of a list from a cursor on, following endCursor until it is null.
RECURSIVE PagesFrom(_, _, _)
PagesFrom(list, first, after) ==
    LET page == paginate(list, [first |-> first, after |-> after]).posts
    IN  page.nodes \o
           (IF page.pageInfo.endCursor = Null THEN <<>>
            ELSE PagesFrom(list, first, page.pageInfo.endCursor))

\* C30: for a cached list of N filtered posts, page size p >= 1 and offset o,
\* getBlogPosts returns the posts o..o+p-1 clipped to N, hasNextPage iff
\* o + p < N, endCursor o + p when hasNextPage and null otherwise,
\* hasPreviousPage iff o > 0; and following endCursor from 0 until it is null
\* visits every post of the list once, in order.
C30_Pagination ==
    /\ (PostsReturned /\
        allPostsCacheKey(call.variables) \in DOMAIN allFilteredPostsCache) =>
          LET list == allFilteredPostsCache[allPostsCacheKey(call.variables)]
              size == Len(list)
              p == PageSize
              o == OffsetOfCall
              info == result.posts.pageInfo
          IN  /\ result.posts.nodes =
                    [i \in 1..(IF o < size THEN Min(o + p, size) - o ELSE 0) |->
                        list[o + i]]
              /\ info.hasNextPage <=> o + p < size
              /\ info.hasNextPage => info.endCursor = Cursor(Decimal(o + p))
              /\ ~info.hasNextPage => info.endCursor = Null
              /\ info.hasPreviousPage <=> o > 0
    /\ \A key \in DOMAIN allFilteredPostsCache :
          \A first \in {Num(1), Num(2), Num(5), Undefined} :
              PagesFrom(allFilteredPostsCache[key], first, Cursor(<<0>>))
                 = allFilteredPostsCache[key]

\* A page of two in the middle of the long list: posts 10 and 11 of 12, with
\* a next page at cursor 11.
C30_Witness ==
    /\ PostsReturned
    /\ allPostsCacheKey(call.variables) \in DOMAIN allFilteredPostsCache
    /\ call.variables.after = Cursor(<<9>>)
    /\ Len(result.posts.nodes) = 2
    /\ result.posts.nodes[1].id = 10
    /\ result.posts.pageInfo.hasNextPage
    /\ result.posts.pageInfo.hasPreviousPage
    /\ result.posts.pageInfo.endCursor = Cursor(<<1, 1>>)

\* ------------------------------------------------------------------ clearing the blog cache

\* The next call of each of the three reads would go to the network.
FreshRequests ==
    /\ \A language \in RequestedLanguages :
          allPostsCacheKey([language |-> language, categoryName |-> Undefined])
             \notin DOMAIN allFilteredPostsCache
    /\ ~Truthy(getCachedData(getCacheKey("GET_CATEGORIES", "{}")))
    /\ \A slug \in Slugs :
          ~Truthy(getCachedData(getCacheKey("GET_POST",
                                            [categoryName |-> slug])))

\* C24: clearBlogCache() clears all cached blog data: after it returns, the
\* next getBlogPosts, getCategories and getPostBySlug each issue a fresh
\* network request.
C24_ClearBlogCacheClearsAll == [][clearBlogCache => FreshRequests']_vars

\* ------------------------------------------------------------------ the code format

MaxFormatLen == 5

\* The quantifier {4,20} of the pattern.
MinCodeLength == 4
MaxCodeLength == 20

\* The class [A-Z0-9] of the pattern.
UpperAlnum ==
    {"A", "B", "C", "D", "E", "F", "G", "H", "I", "J", "K", "L", "M", "N",
     "O", "P", "Q", "R", "S", "T", "U", "V", "W", "X", "Y", "Z",
     "0", "1", "2", "3", "4", "5", "6", "7", "8", "9"}

\* The characters of the codes whose format is validated.
FormatChars == {"a", "A", "7", " ", "-"}

RECURSIVE FormatSeqs(_)
FormatSeqs(n) ==
    IF n = 0 THEN {<<>>}
    ELSE {Append(s, c) : s \in FormatSeqs(n - 1), c \in FormatChars}

\* Every code of at most MaxFormatLen characters; codes around the upper
\* length, of the letter A with at most one other character; and the two
\* codes of the store's own test.
FormatCodes ==
    UNION {FormatSeqs(n) : n \in 0..MaxFormatLen}
    \cup {[i \in 1..n |-> IF i = k THEN c ELSE "A"] :
             n \in (MaxCodeLength - 1)..(MaxCodeLength + 1),
             k \in 1..(MaxCodeLength + 1), c \in FormatChars}
    \cup {<<"A", "B", "C">>, <<"V", "E", "R", "A", "N", "O", "2", "0">>}

\* The number of leading characters of s in the class, at most max: what the
\* greedy quantifier consumes.
RECURSIVE classRun(_, _)
classRun(s, max) ==
    IF max = 0 \/ s = <<>> \/ Head(s) \notin UpperAlnum THEN 0
    ELSE 1 + classRun(Tail(s), max - 1)

\* /^[A-Z0-9]{4,20}$/.test(s): from the start, some allowed number of class
\* characters ends at the end of the input.
patternTest(s) ==
    \E k \in MinCodeLength..classRun(s, MaxCodeLength) : k = Len(s)

\* The code is trimmed before the test.
validateCodeFormatTrimmed(code) == patternTest(toUpperCase(trim(code)))

validateCodeFormat(code) == patternTest(toUpperCase(code))

\* validateCodeFormat(code) is called, once in a behaviour.
callValidateCodeFormat(code) ==
    /\ call = Null
    /\ call' = [fn |-> "validateCodeFormat", code |-> code]
    /\ result' = Bool(validateCodeFormat(code))
    /\ threw' = FALSE
    /\ UNCHANGED <<storeVars, now, blogVars, request, timeoutId, aborted,
                   settlement>>

NextFormat == \E code \in FormatCodes : callValidateCodeFormat(code)

SpecFormat == InitClient /\ [][NextFormat]_vars

FormatValidated == call # Null /\ call.fn = "validateCodeFormat"

\* C25: validateCodeFormat(code) is true exactly when the code, with its
\* lower-case letters made upper-case and nothing trimmed, has 4 to 20
\* characters, all of them in A-Z or 0-9; 'ABC' is rejected.
C25_FormatExactly ==
    FormatValidated =>
        LET code == call.code
            upper(c) == IF c = "a" THEN "A" ELSE c
        IN  /\ result.bool <=>
                  /\ Len(code) >= 4
                  /\ Len(code) <= 20
                  /\ \A i \in 1..Len(code) : upper(code[i]) \in UpperAlnum
            /\ code = <<"A", "B", "C">> => ~result.bool

\* A code of 20 characters with a lower-case letter was accepted.
C25_Witness ==
    /\ FormatValidated
    /\ Len(call.code) = 20
    /\ \E i \in 1..20 : call.code[i] = "a"
    /\ result = Bool(TRUE)

\* ------------------------------------------------------------------ the store's invariants

hasError == discountState = "error" /\ discountError # NullError

\* C27: in every state the store actions reach, the error is non-null if and
\* only if the status is 'error', so hasError() equals status == 'error'.
C27_ErrorIffErrorStatus ==
    /\ (discountError # NullError) <=> (discountState = "error")
    /\ hasError <=> (discountState = "error")

\* An error is shown over a typed code.
C27_Witness ==
    /\ discountState = "error"
    /\ discountError = "EXPIRED"
    /\ hasError
    /\ discountCode # <<>>

\* C28: in every state the store actions reach within one session, status
\* 'valid' implies that a discount is applied.
C28_ValidHasDiscount == (discountState = "valid") => (appliedDiscount # Null)

\* A fixed discount is applied and valid, and a new code is being typed.
C28_Witness ==
    /\ discountState = "valid"
    /\ appliedDiscount # Null
    /\ appliedDiscount.type = "fixed"
    /\ discountCode # <<>>

\* C29: an applied discount and an error never coexist: appliedDiscount
\* non-null implies error null.
C29_NoErrorWithDiscount == (appliedDiscount # Null) => (discountError = NullError)

\* A discount stays applied while another validation runs.
C29_Witness ==
    /\ appliedDiscount # Null
    /\ discountState = "validating"
    /\ discountError = NullError

\* ------------------------------------------------------------------ overlapping validations

\* The results two validation calls in flight can come back with.
OverlapDiscounts ==
    {Discount("percentage", 2000, Null, "active"),
     Discount("fixed", 1250, Null, "active")}
OverlapErrors == {"INVALID_CODE", "NETWORK_ERROR"}

\* The store under validation calls whose results are wired in as they
\* arrive: nothing stops a second setValidating while the status is
\* 'validating', nor a completion after another.
NextOverlap ==
    \/ \E code \in RawCodes : setDiscountCode(code)
    \/ setValidating
    \/ \E discount \in OverlapDiscounts : setValid(discount)
    \/ \E error \in OverlapErrors : setError(error)

SpecOverlap == Init /\ [][NextOverlap]_vars

\* The values the store's atoms and the stored text take in SpecOverlap.
CodesTyped == {sanitizeCode(code) : code \in RawCodes}
AppliedValues == OverlapDiscounts \cup {Null}
ErrorValues == OverlapErrors \cup {NullError}
StoredTextValues == {Absent} \cup {JSONStringify(v) : v \in AppliedValues}

\* The first of two completions arrives while the status is 'validating'.
FirstCompletes ==
    /\ discountState = "validating"
    /\ \/ \E discount \in OverlapDiscounts : setValid(discount)
       \/ \E error \in OverlapErrors : setError(error)

\* A success, or a failure, arriving now leaves the status, the applied
\* discount, its stored text and the error as it would have left them had the
\* first completion not arrived.
SameDiscountAfterValid(discount) ==
    /\ \A x \in DiscountStates :
          (ENABLED (setValid(discount) /\ discountState' = x))'
             <=> ENABLED (setValid(discount) /\ discountState' = x)
    /\ \A x \in AppliedValues :
          (ENABLED (setValid(discount) /\ appliedDiscount' = x))'
             <=> ENABLED (setValid(discount) /\ appliedDiscount' = x)
    /\ \A x \in ErrorValues :
          (ENABLED (setValid(discount) /\ discountError' = x))'
             <=> ENABLED (setValid(discount) /\ discountError' = x)
    /\ \A x \in StoredTextValues :
          (ENABLED (setValid(discount) /\ storage' = x))'
             <=> ENABLED (setValid(discount) /\ storage' = x)

SameDiscountAfterError(error) ==
    /\ \A x \in DiscountStates :
          (ENABLED (setError(error) /\ discountState' = x))'
             <=> ENABLED (setError(error) /\ discountState' = x)
    /\ \A x \in AppliedValues :
          (ENABLED (setError(error) /\ appliedDiscount' = x))'
             <=> ENABLED (setError(error) /\ appliedDiscount' = x)
    /\ \A x \in ErrorValues :
          (ENABLED (setError(error) /\ discountError' = x))'
             <=> ENABLED (setError(error) /\ discountError' = x)
    /\ \A x \in StoredTextValues :
          (ENABLED (setError(error) /\ storage' = x))'
             <=> ENABLED (setError(error) /\ storage' = x)

\* The same of the code input.
SameCodeAfterValid(discount) ==
    \A x \in CodesTyped :
        (ENABLED (setValid(discount) /\ discountCode' = x))'
           <=> ENABLED (setValid(discount) /\ discountCode' = x)

SameCodeAfterError(error) ==
    \A x \in CodesTyped :
        (ENABLED (setError(error) /\ discountCode' = x))'
           <=> ENABLED (setError(error) /\ discountCode' = x)

\* A failure arriving now removes the applied discount.
FailureRemovesDiscount ==
    \A error \in OverlapErrors :
        ~ENABLED (setError(error) /\ appliedDiscount' # Null)

\* C26: when two validation calls overlap, the store state after both have
\* completed is exactly the state produced by the completion that arrived
\* last: whatever the first completion was, the second leaves every atom of
\* the store as it would have without the first; a failure arriving after a
\* success removes the discount.
C26_LastCompletionDecides ==
    [][FirstCompletes =>
          /\ \A discount \in OverlapDiscounts :
                SameDiscountAfterValid(discount) /\ SameCodeAfterValid(discount)
          /\ \A error \in OverlapErrors :
                SameDiscountAfterError(error) /\ SameCodeAfterError(error)
          /\ FailureRemovesDiscount']_vars

\* C26, amended: the status, the applied discount, its stored text and the
\* error after both completions are those of the last completion; the code
\* input is '' after a last success, and after a last failure it is what the
\* first completion left, '' when that was a success.
C26_LastCompletionDecidesDiscount ==
    [][FirstCompletes =>
          /\ \A discount \in OverlapDiscounts :
                SameDiscountAfterValid(discount) /\ SameCodeAfterValid(discount)
          /\ \A error \in OverlapErrors :
                /\ SameDiscountAfterError(error)
                /\ \A x \in CodesTyped :
                      (ENABLED (setError(error) /\ discountCode' = x))'
                         <=> x = discountCode'
          /\ (\E discount \in OverlapDiscounts : setValid(discount)) =>
                discountCode' = <<>>
          /\ FailureRemovesDiscount']_vars

\* A discount is applied by one completion while a validation is in flight.
C26_Witness ==
    /\ discountState = "validating"
    /\ appliedDiscount \in OverlapDiscounts
    /\ appliedDiscount.type = "fixed"
    /\ discountCode # <<>>
====
